---- MODULE Spec2Model ----
(***************************************************************************)
(* A model of olinout's Reactor (src/src/reactor.cpp): the bridge between  *)
(* the JACK real-time callback and the Reader / Writer ring buffers.       *)
(*                                                                         *)
(* Three views of the same code are specified:                             *)
(*                                                                         *)
(*   Spec       the life cycle and the completion cell, with the threads   *)
(*              of the program interleaved at every access to the state    *)
(*              they share (finished_fired_ and the promise finished_):    *)
(*              the controlling thread (constructor, wait_finished,        *)
(*              destructor), the host's real-time thread (process_), the   *)
(*              host's notification thread (shutdown_) and the OS signal   *)
(*              handler (signal_handler_).  The sample transfer of a block *)
(*              is reduced here to its two outcomes: it throws or it does  *)
(*              not.                                                       *)
(*                                                                         *)
(*   SpecBlock  the sample transfer of one callback after another on the   *)
(*              real-time thread alone: playback(), capture(), the frame   *)
(*              count and the frame budget, over ring buffers that the     *)
(*              Reader fills and the Writer drains between the blocks.     *)
(*                                                                         *)
(*   SpecCtor   the constructor over its argument lists (collaborators,    *)
(*              frame requirements, port lists, channel counts), the       *)
(*              callbacks, wait_finished() and the destructor of the       *)
(*              Reactor it builds, and the construction of further         *)
(*              Reactors in the same program.                              *)
(***************************************************************************)
EXTENDS Integers, Sequences, FiniteSets, TLC

(***************************************************************************)
(* Bounds of the model.                                                    *)
(***************************************************************************)
MaxIn == 2
MaxOut == 2
MaxNeed == 2
MaxBlocks == 2
MaxFrames == 2
MaxSignals == 1
RdCap == 3
WrCap == 3
MaxSamples == 5
MaxLives == 2

\* The smaller of the two.
Lesser(a, b) == IF a <= b THEN a ELSE b

Max(a, b) == IF a >= b THEN a ELSE b
Min(a, b) == IF a <= b THEN a ELSE b

(***************************************************************************)
(* The constructor's arguments.  outs is the list of requested output      *)
(* destinations, each either the NULL_OUTPUT sentinel ("null") or the name *)
(* of a real destination ("real"); nIn is input_ports.size(); rCh and wCh   *)
(* are what reader->channel_count() and writer->channel_count() answer.    *)
(***************************************************************************)
OutSpecs == UNION {[1..k -> {"real", "null"}] : k \in 0..MaxOut}

Configs ==
    [reader : BOOLEAN, writer : BOOLEAN, nIn : 0..MaxIn, outs : OutSpecs,
     rNeed : {0, MaxNeed}, wNeed : {0, MaxNeed}, infinite : BOOLEAN,
     rCh : 0..MaxOut, wCh : 0..MaxIn]

\* The caller gives the Reactor one port per channel of the Reader and the Writer.
PortPerChannel(c) == c.rCh = Len(c.outs) /\ c.wCh = c.nIn

NullPort == <<"null", 0>>

\* The configurations of Spec: the input ports, real outputs followed by one null
\* output, with or without a Reader, a Writer and a frame budget.
StdOuts == [i \in 1..MaxOut |-> IF i = MaxOut THEN "null" ELSE "real"]

LifeConfigs ==
    {c \in Configs : /\ c.nIn = MaxIn /\ c.outs = StdOuts
                     /\ c.rNeed = MaxNeed /\ c.wNeed = MaxNeed
                     /\ PortPerChannel(c)}

\* The configurations of SpecBlock: a Reader with any list of outputs, or a
\* Writer with any number of inputs, with or without a frame budget.
BlockConfigs ==
    {c \in Configs : /\ c.reader # c.writer
                     /\ c.reader => c.nIn = 0 /\ c.wNeed = 0
                     /\ c.writer => c.outs = <<>> /\ c.rNeed = 0
                     /\ ~c.infinite
                     /\ PortPerChannel(c)}

VARIABLES
    cfg,              \* the constructor's arguments
    ctl,              \* where the controlling thread is
    ctorError,        \* the exception the constructor threw, "none" if none
    hostRefused,      \* the host call that failed during construction, if any
    waitOutcome,      \* how wait_finished() ended: "none", "normal", "raised"
    instance,         \* the file-static Reactor* instance: "null" or "this"
    sigHandlers,      \* SIGNALS_INTERCEPT dispositions: "default", "installed"
    callbackSet,      \* jack_set_process_callback succeeded
    shutdownHook,     \* jack_on_shutdown registered shutdown_
    activated_,       \* Reactor::activated_
    hostActive,       \* the host runs the client's process callback
    registered,       \* host ports registered and not yet unregistered
    unregistered,     \* host ports that were unregistered
    doubleUnreg,      \* jack_port_unregister was called on a port not registered
    connected,        \* ports wired to their external endpoint
    inputs_,          \* Reactor::inputs_
    outputs_,         \* Reactor::outputs_ (NullPort for a nullptr)
    needed_,          \* Reactor::needed_
    done_,            \* Reactor::done_
    finished_fired_,  \* Reactor::finished_fired_
    cell,             \* the shared state of the promise finished_
    setCalls,         \* calls of finished_.set_value / set_exception so far
    th,               \* per context ("rt": process_, "shut": shutdown_,
                      \* "sig": signal_handler_): where it is in its handler
    blocks,           \* callbacks delivered so far
    signals,          \* signals delivered so far
    shutdowns,        \* shutdown notifications delivered so far
    lastCallback,     \* how the last finished callback ended: its result, the
                      \* first exception raised in it ("playback", "capture": no
                      \* buffer for a port; "future_error"), what the cell held
                      \* then, and whether the budget test called signal_finished
    rdRing,           \* the samples waiting in the Reader's ring buffer
    wrRing,           \* the samples waiting in the Writer's ring buffer
    nextSample,       \* the next sample the Reader will supply
    outBuf,           \* the host's output buffers of the current block, per channel
    frame_count,      \* the frame count of the current block
    underruns_,       \* Reactor::underruns_
    overruns_,        \* Reactor::overruns_
    readerFinished,   \* reader_->finished()
    writerFinished,   \* writer_->finished()
    wakes,            \* whether the current block called reader_->wake(), writer_->wake()
    escaped,          \* contexts an exception unwound out of into the host
    crashed,          \* the process was terminated by such an exception
    activateCalls,    \* calls of jack_activate made for this Reactor
    deactivateCalls,  \* calls of jack_deactivate made for this Reactor
    statsRead,        \* the counters as wait_finished() read them for its log line
    lives,            \* Reactor objects the program has constructed or tried to
    secondError,      \* how the constructor of a second Reactor ended, if one ran
    staleSignal,      \* a signal handler ran although no Reactor was live
    outOfRange        \* a callback indexed a port vector past its end

ctlVars == <<ctl, ctorError, hostRefused, waitOutcome>>
hookVars == <<instance, sigHandlers, callbackSet, shutdownHook>>
engineVars == <<activated_, hostActive>>
portVars == <<registered, unregistered, doubleUnreg, connected, inputs_, outputs_>>
cellVars == <<finished_fired_, cell, setCalls>>
envVars == <<blocks, signals, shutdowns>>
dataVars == <<rdRing, wrRing, nextSample, outBuf, frame_count, underruns_, overruns_,
              readerFinished, writerFinished, wakes>>
obsVars == <<activateCalls, deactivateCalls, statsRead, lives, secondError, staleSignal,
            outOfRange>>
vars == <<cfg, ctlVars, hookVars, engineVars, portVars, needed_, done_, cellVars,
          th, envVars, lastCallback, escaped, crashed, dataVars, obsVars>>

Contexts == {"rt", "shut", "sig"}

Idle == [pc |-> "idle", exc |-> "none", cellAtRaise |-> "none", fire |-> FALSE]

NoCallback == [result |-> "none", exc |-> "none", cellAtRaise |-> "none",
               budgetFire |-> FALSE]

NoWakes == [reader |-> FALSE, writer |-> FALSE]

NoStats == [read |-> FALSE, done |-> 0, overruns |-> 0, underruns |-> 0]

(***************************************************************************)
(* register_ports: the ports in the order the constructor creates them.    *)
(***************************************************************************)
InOrder(c) == IF c.writer THEN [i \in 1..c.nIn |-> <<"in", i>>] ELSE <<>>

\* A test that takes every destination for a real one.
IsRealOutAlways(c, p) == TRUE

IsRealOut(c, p) == c.outs[p[2]] = "real"

OutAll(c) == [i \in 1..Len(c.outs) |-> <<"out", i>>]

OutReal(c) ==
    IF c.reader THEN SelectSeq(OutAll(c), LAMBDA p : IsRealOut(c, p)) ELSE <<>>

CreateOrder(c) == InOrder(c) \o OutReal(c)

Range(s) == {s[i] : i \in DOMAIN s}

\* What register_ports leaves behind when the host refuses the k-th port it is
\* asked for (k = 0: the host refuses none).
RegisterPorts(c, k) ==
    LET order == CreateOrder(c)
        made == IF k = 0 THEN Len(order) ELSE k - 1
        nInMade == Min(made, Len(InOrder(c)))
        \* the outputs loop reached index lastOut before it threw or ended
        failedPort == IF k = 0 THEN NullPort ELSE order[k]
        outsSeen == IF ~c.reader THEN 0
                    ELSE IF k = 0 THEN Len(c.outs)
                    ELSE IF failedPort[1] = "out" THEN failedPort[2] - 1
                    ELSE 0
    IN  [ok |-> k = 0,
         created |-> {order[i] : i \in 1..made},
         inputs |-> SubSeq(InOrder(c), 1, nInMade),
         outputs |-> [i \in 1..outsSeen |->
                        IF c.outs[i] = "null" THEN NullPort ELSE <<"out", i>>]]

\* needed_ as the constructor's initialiser list computes it.
FramesNeeded(c) ==
    IF c.infinite THEN 0
    ELSE Max(IF c.reader THEN c.rNeed ELSE 0, IF c.writer THEN c.wNeed ELSE 0)

\* The program before it constructs its Reactor.
Unbuilt ==
    /\ ctl = "start" /\ ctorError = "none" /\ hostRefused = "none"
    /\ waitOutcome = "none"
    /\ instance = "null" /\ sigHandlers = "default"
    /\ callbackSet = FALSE /\ shutdownHook = FALSE
    /\ activated_ = FALSE /\ hostActive = FALSE
    /\ registered = {} /\ unregistered = {} /\ doubleUnreg = FALSE
    /\ connected = {} /\ inputs_ = <<>> /\ outputs_ = <<>>
    /\ needed_ = 0 /\ done_ = 0
    /\ finished_fired_ = FALSE /\ cell = "empty" /\ setCalls = 0
    /\ th = [t \in Contexts |-> Idle]
    /\ blocks = 0 /\ signals = 0 /\ shutdowns = 0
    /\ lastCallback = NoCallback
    /\ escaped = {} /\ crashed = FALSE
    /\ wrRing = <<>>
    /\ outBuf = <<>> /\ frame_count = 0
    /\ underruns_ = 0 /\ overruns_ = 0
    /\ readerFinished = FALSE /\ writerFinished = FALSE
    /\ wakes = NoWakes
    /\ activateCalls = 0 /\ deactivateCalls = 0 /\ statsRead = NoStats
    /\ lives = 1 /\ secondError = "none" /\ staleSignal = FALSE
    /\ outOfRange = FALSE

Init ==
    /\ cfg \in LifeConfigs
    /\ rdRing = <<>> /\ nextSample = 1
    /\ Unbuilt


(***************************************************************************)
(* The controlling thread.                                                 *)
(***************************************************************************)

\* A deactivate that does not look at activated_.
deactivateAlways(act, host) == [activated |-> FALSE, host |-> FALSE, calls |-> 1]

\* Reactor::deactivate on (activated_, the host's state): jack_deactivate is called
\* only when activated_ is set, and activated_ is cleared.
deactivate(act, host) ==
    [activated |-> FALSE, host |-> IF act THEN FALSE ELSE host,
     calls |-> IF act THEN 1 ELSE 0]

\* A jack_deactivate that does not wait for the process thread.
CanDeactivateAnytime == TRUE

\* jack_deactivate returns once the process thread has left the callback.
CanDeactivate == activated_ => th["rt"].pc = "idle"

\* The constructor up to and including activate().  The host may refuse the k-th
\* port (k > 0), the process callback, or the activation.
Construct ==
    /\ ~crashed
    /\ ctl = "start"
    /\ needed_' = FramesNeeded(cfg)
    /\ IF instance # "null"
       THEN /\ ctl' = "ctor_failed" /\ ctorError' = "duplicate_instance"
            /\ UNCHANGED <<hostRefused, instance, sigHandlers, callbackSet, shutdownHook,
                           engineVars, portVars, activateCalls>>
       ELSE \E k \in 0..Len(CreateOrder(cfg)), refuse \in {"none", "callback", "activate"} :
            LET r == RegisterPorts(cfg, k)
                failed == ~r.ok \/ refuse # "none"
                hooked == r.ok /\ refuse # "callback"
            IN  /\ (k # 0) => (refuse = "none")
                /\ instance' = "this"
                /\ registered' = registered \cup r.created
                /\ callbackSet' = hooked
                /\ shutdownHook' = hooked
                /\ sigHandlers' = IF hooked THEN "installed" ELSE sigHandlers
                \* activate() is reached once the callback is installed
                /\ activateCalls' = IF hooked THEN activateCalls + 1 ELSE activateCalls
                /\ activated_' = ~failed
                /\ hostActive' = ~failed
                \* a constructor that throws destroys the members; the raw
                \* handles in inputs_ and outputs_ are lost with them
                /\ inputs_' = IF failed THEN <<>> ELSE r.inputs
                /\ outputs_' = IF failed THEN <<>> ELSE r.outputs
                /\ ctl' = IF failed THEN "ctor_failed" ELSE "wiring"
                /\ hostRefused' = IF ~r.ok THEN "port" ELSE refuse
                /\ ctorError' = IF ~r.ok THEN "port_creation"
                                ELSE IF refuse = "callback" THEN "callback"
                                ELSE IF refuse = "activate" THEN "activation"
                                ELSE "none"
                /\ UNCHANGED <<unregistered, doubleUnreg, connected>>
    /\ UNCHANGED <<deactivateCalls, statsRead, lives, secondError, staleSignal, outOfRange,
                   dataVars, cfg, waitOutcome, done_, cellVars, th, envVars, lastCallback,
                   escaped, crashed>>

\* A catch block that rethrows without deactivating.
RollbackWiringSkipped(act, host) == [activated |-> act, host |-> host, calls |-> 0]

\* What the constructor's catch block does with the engine before it rethrows.
RollbackWiring(act, host) == deactivate(act, host)

\* connect_ports inside the constructor's try block.  The host may refuse the
\* j-th connection (j > 0); the catch block then deactivates and rethrows.
ConstructWire ==
    /\ ~crashed
    /\ ctl = "wiring"
    /\ \E j \in 0..Len(CreateOrder(cfg)) :
         IF j = 0
         THEN /\ connected' = Range(CreateOrder(cfg))
              /\ ctl' = "constructed"
              /\ UNCHANGED <<ctorError, hostRefused, engineVars, inputs_, outputs_,
                             deactivateCalls>>
         ELSE LET d == RollbackWiring(activated_, hostActive)
              IN  /\ CanDeactivate
                  \* jack_deactivate also drops the client's connections
                  /\ connected' = IF d.host THEN {CreateOrder(cfg)[i] : i \in 1..(j - 1)}
                                  ELSE {}
                  /\ activated_' = d.activated
                  /\ hostActive' = d.host
                  /\ deactivateCalls' = deactivateCalls + d.calls
                  /\ inputs_' = <<>> /\ outputs_' = <<>>
                  /\ ctl' = "ctor_failed"
                  /\ hostRefused' = "connect"
                  \* throw; rethrows the exception connect_ports raised
                  /\ ctorError' = "wiring"
    /\ UNCHANGED <<activateCalls, statsRead, lives, secondError, staleSignal, outOfRange,
                   dataVars, cfg, waitOutcome, hookVars, registered, unregistered,
                   doubleUnreg, needed_, done_, cellVars, th, envVars, lastCallback,
                   escaped, crashed>>

\* How wait_finished() ends once the future is ready: future::wait() returns
\* whatever the shared state holds, a stored exception included.
WaitResult(c) == "normal"

\* A wait that returns at once.
FutureReadyAtOnce(c) == TRUE

\* future::wait() returns once the shared state holds a value or an exception.
FutureReady(c) == c # "empty"

\* wait_finished(), which the controlling thread calls once the Reactor is
\* constructed: future::wait() blocks until the shared state holds a result, then
\* deactivate(), log, return.
WaitFinished ==
    /\ ~crashed
    /\ ctl = "constructed"
    /\ FutureReady(cell)
    /\ CanDeactivate
    /\ LET d == deactivate(activated_, hostActive)
       IN  /\ activated_' = d.activated
           /\ hostActive' = d.host
           /\ deactivateCalls' = deactivateCalls + d.calls
           /\ connected' = IF d.host THEN connected ELSE {}
    \* the log line reads done_, overruns_ and underruns_
    /\ statsRead' = [read |-> TRUE, done |-> done_, overruns |-> overruns_,
                     underruns |-> underruns_]
    /\ waitOutcome' = WaitResult(cell)
    /\ ctl' = "returned"
    /\ UNCHANGED <<activateCalls, lives, secondError, staleSignal, outOfRange,
                   dataVars, cfg, ctorError, hostRefused, hookVars, registered, unregistered,
                   doubleUnreg, inputs_, outputs_, needed_, done_, cellVars, th,
                   envVars, lastCallback, escaped, crashed>>

\* The ports ~Reactor walks: inputs_, and the non-null entries of outputs_.
TrackedPorts(ins, outs) == Range(ins) \cup (Range(outs) \ {NullPort})

\* ~Reactor.
Destroy ==
    /\ ~crashed
    /\ ctl = "returned"
    /\ CanDeactivate
    /\ LET d == deactivate(activated_, hostActive)
           t == TrackedPorts(inputs_, outputs_)
       IN  /\ activated_' = d.activated
           /\ hostActive' = d.host
           /\ deactivateCalls' = deactivateCalls + d.calls
           /\ connected' = IF d.host THEN connected \ t ELSE {}
           /\ registered' = registered \ t
           /\ unregistered' = unregistered \cup t
           /\ doubleUnreg' = (doubleUnreg \/ ~(t \subseteq registered))
    /\ sigHandlers' = "default"
    /\ instance' = IF instance = "this" THEN "null" ELSE instance
    /\ ctl' = "destroyed"
    /\ UNCHANGED <<activateCalls, statsRead, lives, secondError, staleSignal, outOfRange,
                   dataVars, cfg, ctorError, hostRefused, waitOutcome, callbackSet,
                   shutdownHook, inputs_, outputs_, needed_, done_, cellVars, th, envVars, lastCallback,
                   escaped, crashed>>


(***************************************************************************)
(* The completion cell: signal_finished() and the catch block of process_, *)
(* one action per access to finished_fired_ and to the promise.            *)
(***************************************************************************)

Alive == ctl \in {"wiring", "constructed", "returned"}

\* The test signal_finished() makes before it fires.
MayFire(fired) == ~fired

\* The test the catch block of process_ makes before it stores the exception.
MayStore(fired) == ~fired

\* A budget test that fires only past the budget.
BudgetReachedStrict(needed, done) == needed # 0 /\ done > needed

\* The frame-budget test of process().
BudgetReached(needed, done) == needed # 0 /\ done >= needed

\* Context t leaves its handler normally; for the real-time thread this is
\* process_ returning 0 to the host.
Return(t, result) ==
    /\ th' = [th EXCEPT ![t] = Idle]
    /\ lastCallback' =
         IF t = "rt"
         THEN [result |-> result, exc |-> th[t].exc,
               cellAtRaise |-> th[t].cellAtRaise, budgetFire |-> th[t].fire]
         ELSE lastCallback
    /\ UNCHANGED <<escaped, crashed>>

\* An exception leaves the handler of context t and unwinds into the host (or
\* into the signal frame): undefined behaviour, which either terminates the
\* process or lets it go on.
Escape(t) ==
    /\ th' = [th EXCEPT ![t] = Idle]
    /\ lastCallback' =
         IF t = "rt"
         THEN [result |-> "escaped", exc |-> th[t].exc,
               cellAtRaise |-> th[t].cellAtRaise, budgetFire |-> th[t].fire]
         ELSE lastCallback
    /\ escaped' = escaped \cup {t}
    /\ crashed' \in BOOLEAN

\* signal_finished(): if (!finished_fired_)
SignalFinishedTest(t) ==
    /\ ~crashed
    /\ th[t].pc = "sf_test"
    /\ Alive
    /\ IF MayFire(finished_fired_)
       THEN /\ th' = [th EXCEPT ![t].pc = "sf_latch"]
            /\ UNCHANGED <<lastCallback, escaped, crashed>>
       ELSE Return(t, "returned")
    /\ UNCHANGED <<obsVars, dataVars, cfg, ctlVars, hookVars, engineVars, portVars, needed_, done_,
                   cellVars, envVars>>

\* signal_finished(): finished_fired_ = true
SignalFinishedLatch(t) ==
    /\ ~crashed
    /\ th[t].pc = "sf_latch"
    /\ Alive
    /\ finished_fired_' = TRUE
    /\ th' = [th EXCEPT ![t].pc = "sf_set"]
    /\ UNCHANGED <<obsVars, dataVars, cfg, ctlVars, hookVars, engineVars, portVars, needed_, done_,
                   cell, setCalls, envVars, lastCallback, escaped, crashed>>

\* signal_finished(): finished_.set_value(), which throws future_error
\* (promise_already_satisfied) when the shared state already holds a result.
SignalFinishedSet(t) ==
    /\ ~crashed
    /\ th[t].pc = "sf_set"
    /\ Alive
    /\ setCalls' = setCalls + 1
    /\ IF cell = "empty"
       THEN /\ cell' = "value"
            /\ Return(t, "returned")
       ELSE /\ cell' = cell
            /\ IF t = "rt"
               THEN \* inside the try block of process_
                    /\ th' = [th EXCEPT ![t].pc = "catch",
                                        ![t].exc = "future_error",
                                        ![t].cellAtRaise = cell]
                    /\ UNCHANGED <<lastCallback, escaped, crashed>>
               ELSE Escape(t)
    /\ UNCHANGED <<obsVars, dataVars, cfg, ctlVars, hookVars, engineVars, portVars, needed_, done_,
                   finished_fired_, envVars>>

(***************************************************************************)
(* The sample transfer of one block: playback() and capture().  A ring     *)
(* buffer is the sequence of the samples waiting in it; a read or a write  *)
(* of one sample is short when the buffer is empty or full.  The Reader    *)
(* numbers the samples it supplies, so every sample read is told apart.    *)
(* Frames and channels are counted from 0 as in the code; sequences are    *)
(* indexed from 1.                                                         *)
(***************************************************************************)
Stale == 0 - 1
Silence == 0

\* reader_->channel_count() and writer_->channel_count().
ReaderChannels(c) == c.rCh
WriterChannels(c) == c.wCh

\* The buffers jack_port_get_buffer hands out for the real output ports: host
\* memory with whatever it held before.
FreshBuffers(c, n) ==
    [i \in 1..ReaderChannels(c) |->
        IF c.outs[i] = "real" THEN [f \in 1..n |-> Stale] ELSE <<>>]

\* jack_ringbuffer_read returned fewer bytes than one sample.
ShortRead(ring) == Len(ring) = 0

\* jack_ringbuffer_write took fewer bytes than one sample.
ShortWrite(ring) == Len(ring) >= WrCap

\* What the frame loop of playback() does after a short read.
AfterShortRead(n, f, ch, st) == [st EXCEPT !.n = f, !.short = TRUE]

RECURSIVE Demux(_, _, _, _, _)
\* The frame loop of playback() at frame f and channel ch.
Demux(c, n, f, ch, st) ==
    IF f = n THEN [st EXCEPT !.n = f]
    ELSE IF ch = ReaderChannels(c) THEN Demux(c, n, f + 1, 0, st)
    ELSE IF ShortRead(st.ring) THEN AfterShortRead(n, f, ch, st)
    ELSE Demux(c, n, f, ch + 1,
               [st EXCEPT !.ring = Tail(@),
                          !.out = IF c.outs[ch + 1] = "real"
                                  THEN [@ EXCEPT ![ch + 1][f + 1] = Head(st.ring)]
                                  ELSE @])

\* A memset that starts one frame late.
MuteFromNext(stop) == stop + 1

\* The first frame the memset of playback() clears, given where the loop stopped.
MuteFrom(stop) == stop

\* A count that ignores finished().
CountsAlways(finished) == TRUE

\* Whether a short transfer counts as an underrun or an overrun.
CountsAsXrun(finished) == ~finished

\* playback(n), past the buffer pointers; finShort and finEnd are what
\* reader_->finished() answers at the short read and after the loop.
Playback(c, n, ring, finShort, finEnd) ==
    LET st == Demux(c, n, 0, 0,
                    [ring |-> ring, out |-> FreshBuffers(c, n), n |-> 0,
                     short |-> FALSE])
        muted == IF st.n # n
                 THEN [i \in 1..ReaderChannels(c) |->
                         IF c.outs[i] = "real"
                         THEN [f \in 1..n |->
                                 IF f > MuteFrom(st.n) THEN Silence ELSE st.out[i][f]]
                         ELSE st.out[i]]
                 ELSE st.out
    IN  [ring |-> st.ring, out |-> muted,
         under |-> IF st.short /\ CountsAsXrun(finShort) THEN 1 ELSE 0,
         wake |-> ~finEnd]

\* What the frame loop of capture() does after a short write.
AfterShortWrite(n, f, ch, st) == [st EXCEPT !.short = TRUE]

RECURSIVE Mux(_, _, _, _, _)
\* The frame loop of capture() at frame f and channel ch; the sample written is
\* tagged with its channel.
Mux(c, n, f, ch, st) ==
    IF f = n THEN st
    ELSE IF ch = WriterChannels(c) THEN Mux(c, n, f + 1, 0, st)
    ELSE IF ShortWrite(st.ring) THEN AfterShortWrite(n, f, ch, st)
    ELSE Mux(c, n, f, ch + 1, [st EXCEPT !.ring = Append(@, ch)])

\* A capture() that never returns early.
SkipsCaptureNever(finStart) == FALSE

\* The early return of capture(): if (writer_->finished()) return.
SkipsCapture(finStart) == finStart

\* capture(n); finStart, finShort and finEnd are what writer_->finished() answers
\* on entry, at the short write and after the loop.
Capture(c, n, ring, finStart, finShort, finEnd) ==
    IF SkipsCapture(finStart)
    THEN [ring |-> ring, over |-> 0, wake |-> FALSE]
    ELSE LET st == Mux(c, n, 0, 0, [ring |-> ring, short |-> FALSE])
         IN  [ring |-> st.ring,
              over |-> IF st.short /\ CountsAsXrun(finShort) THEN 1 ELSE 0,
              wake |-> ~finEnd]

\* Where a block can throw: playback() and capture() throw when the host hands
\* out no buffer for a real output port or for an input port.
Throwers == {"none", "playback", "capture"}

CanThrow(c, thrower, wfin) ==
    \/ thrower = "none"
    \/ thrower = "playback" /\ c.reader
          /\ \E i \in 1..ReaderChannels(c) : c.outs[i] = "real"
    \/ thrower = "capture" /\ c.writer /\ ~wfin /\ WriterChannels(c) > 0

\* playback() and capture() index outputs_, output_buffers_, inputs_ and
\* input_buffers_ with every channel of the Reader and of the Writer.
IndexesPastEnd(c, outs, ins, wfin) ==
    \/ c.reader /\ ReaderChannels(c) > Len(outs)
    \/ c.writer /\ ~wfin /\ WriterChannels(c) > Len(ins)

\* The frames process() adds to done_ for a block of n frames.
Counted(n) == n

\* process(n) up to the budget test: playback if there is a Reader, capture if
\* there is a Writer, done_ += n.  rS, rE, wS, wE are the answers of finished()
\* during the block.
RunBlock(n, thrower, rS, rE, wS, wE) ==
    LET played == cfg.reader /\ thrower # "playback"
        captured == cfg.writer /\ thrower = "none"
        pb == Playback(cfg, n, rdRing, rS, rE)
        cp == Capture(cfg, n, wrRing, writerFinished, wS, wE)
    IN  /\ frame_count' = n
        /\ rdRing' = IF played THEN pb.ring ELSE rdRing
        /\ outBuf' = IF played THEN pb.out
                     ELSE IF cfg.reader THEN FreshBuffers(cfg, n) ELSE <<>>
        /\ underruns_' = IF played THEN underruns_ + pb.under ELSE underruns_
        /\ readerFinished' = IF played THEN rE ELSE readerFinished
        /\ wrRing' = IF captured THEN cp.ring ELSE wrRing
        /\ overruns_' = IF captured THEN overruns_ + cp.over ELSE overruns_
        /\ writerFinished' = IF captured /\ ~writerFinished THEN wE ELSE writerFinished
        /\ wakes' = [reader |-> played /\ pb.wake, writer |-> captured /\ cp.wake]
        /\ done_' = IF thrower = "none" THEN done_ + Counted(n) ELSE done_
        /\ UNCHANGED nextSample

(***************************************************************************)
(* The real-time thread: process_ and process.                             *)
(***************************************************************************)

\* process_ is entered with frame_count n; process() transfers the block, counts
\* it and tests the budget.  In this view the Reader and the Writer do not touch
\* their ring buffers or their finished flags.
ProcessBlock ==
    /\ ~crashed
    /\ hostActive /\ callbackSet /\ Alive
    /\ ~IndexesPastEnd(cfg, outputs_, inputs_, writerFinished)
    /\ th["rt"].pc = "idle"
    /\ blocks < MaxBlocks
    /\ blocks' = blocks + 1
    /\ \E n \in 1..MaxFrames, thrower \in Throwers :
         /\ CanThrow(cfg, thrower, writerFinished)
         /\ RunBlock(n, thrower, readerFinished, readerFinished,
                     writerFinished, writerFinished)
         /\ IF thrower # "none"
            THEN /\ th' = [th EXCEPT !["rt"] =
                            [pc |-> "catch", exc |-> thrower,
                             cellAtRaise |-> cell, fire |-> FALSE]]
                 /\ UNCHANGED lastCallback
            ELSE IF BudgetReached(needed_, done_')
                 THEN /\ th' = [th EXCEPT !["rt"] =
                                 [pc |-> "sf_test", exc |-> "none",
                                  cellAtRaise |-> "none", fire |-> TRUE]]
                      /\ UNCHANGED lastCallback
                 ELSE /\ th' = th
                      /\ lastCallback' =
                           [result |-> "returned", exc |-> "none",
                            cellAtRaise |-> "none", budgetFire |-> FALSE]
    /\ UNCHANGED <<obsVars, cfg, ctlVars, hookVars, engineVars, portVars, needed_, cellVars,
                   signals, shutdowns, escaped, crashed>>

\* catch (...): if (!reactor->finished_fired_) ... else throw;
ProcessCatchTest ==
    /\ ~crashed
    /\ th["rt"].pc = "catch"
    /\ Alive
    /\ IF MayStore(finished_fired_)
       THEN /\ th' = [th EXCEPT !["rt"].pc = "set_exception"]
            /\ UNCHANGED <<lastCallback, escaped, crashed>>
       ELSE Escape("rt")
    /\ UNCHANGED <<obsVars, dataVars, cfg, ctlVars, hookVars, engineVars, portVars, needed_, done_,
                   cellVars, envVars>>

\* catch (...): finished_.set_exception(current_exception()); return 0.
\* set_exception throws future_error out of the handler when the shared state
\* already holds a result.
ProcessCatchStore ==
    /\ ~crashed
    /\ th["rt"].pc = "set_exception"
    /\ Alive
    /\ setCalls' = setCalls + 1
    /\ IF cell = "empty"
       THEN /\ cell' = "exception"
            /\ Return("rt", "stored")
       ELSE /\ cell' = cell
            /\ Escape("rt")
    /\ UNCHANGED <<obsVars, dataVars, cfg, ctlVars, hookVars, engineVars, portVars, needed_, done_,
                   finished_fired_, envVars>>

(***************************************************************************)
(* The host's shutdown notification and the OS signals.                    *)
(***************************************************************************)

\* shutdown_(arg): the host notifies the client of its shutdown, once.
Shutdown ==
    /\ ~crashed
    /\ shutdownHook /\ Alive
    /\ shutdowns = 0
    /\ th["shut"].pc = "idle"
    /\ shutdowns' = 1
    /\ th' = [th EXCEPT !["shut"].pc = "sf_test"]
    /\ UNCHANGED <<obsVars, dataVars, cfg, ctlVars, hookVars, engineVars, portVars, needed_, done_,
                   cellVars, blocks, signals, lastCallback, escaped, crashed>>

\* signal_handler_(sig): one of SIGNALS_INTERCEPT arrives while the handler is
\* installed; it calls instance->signal_finished().
Signal ==
    /\ ~crashed
    /\ sigHandlers = "installed" /\ instance = "this" /\ Alive
    /\ signals < MaxSignals
    /\ th["sig"].pc = "idle"
    /\ signals' = signals + 1
    /\ th' = [th EXCEPT !["sig"].pc = "sf_test"]
    /\ UNCHANGED <<obsVars, dataVars, cfg, ctlVars, hookVars, engineVars, portVars, needed_, done_,
                   cellVars, blocks, shutdowns, lastCallback, escaped, crashed>>

Next ==
    \/ Construct
    \/ ConstructWire
    \/ WaitFinished
    \/ Destroy
    \/ ProcessBlock
    \/ ProcessCatchTest
    \/ ProcessCatchStore
    \/ Shutdown
    \/ Signal
    \/ \E t \in Contexts : SignalFinishedTest(t)
    \/ \E t \in Contexts : SignalFinishedLatch(t)
    \/ \E t \in Contexts : SignalFinishedSet(t)

Spec == Init /\ [][Next]_vars


(***************************************************************************)
(* SpecBlock: the callbacks of a constructed, activated Reactor, each run  *)
(* to its end on the real-time thread, while the Reader fills and the      *)
(* Writer drains their ring buffers and set their finished flags.          *)
(***************************************************************************)

\* signal_finished() run to its end with no other thread in between.
FireSeq(fired, c) ==
    IF MayFire(fired)
    THEN [fired |-> TRUE, cell |-> IF c = "empty" THEN "value" ELSE c, sets |-> 1,
          threw |-> c # "empty"]
    ELSE [fired |-> fired, cell |-> c, sets |-> 0, threw |-> FALSE]

\* The catch block of process_ run to its end with no other thread in between.
CatchSeq(fired, c) ==
    IF MayStore(fired)
    THEN [cell |-> IF c = "empty" THEN "exception" ELSE c, sets |-> 1,
          escapes |-> c # "empty"]
    ELSE [cell |-> c, sets |-> 0, escapes |-> TRUE]

InitBlock ==
    /\ cfg \in BlockConfigs
    /\ ctl = "constructed" /\ ctorError = "none" /\ hostRefused = "none"
    /\ waitOutcome = "none"
    /\ instance = "this" /\ sigHandlers = "installed"
    /\ callbackSet = TRUE /\ shutdownHook = TRUE
    /\ activated_ = TRUE /\ hostActive = TRUE
    /\ registered = RegisterPorts(cfg, 0).created
    /\ unregistered = {} /\ doubleUnreg = FALSE
    /\ connected = Range(CreateOrder(cfg))
    /\ inputs_ = RegisterPorts(cfg, 0).inputs
    /\ outputs_ = RegisterPorts(cfg, 0).outputs
    /\ needed_ = FramesNeeded(cfg) /\ done_ = 0
    /\ finished_fired_ = FALSE /\ cell = "empty" /\ setCalls = 0
    /\ th = [t \in Contexts |-> Idle]
    /\ blocks = 0 /\ signals = 0 /\ shutdowns = 0
    /\ lastCallback = NoCallback
    /\ escaped = {} /\ crashed = FALSE
    /\ rdRing = <<>> /\ wrRing = <<>> /\ nextSample = 1
    /\ outBuf = <<>> /\ frame_count = 0
    /\ underruns_ = 0 /\ overruns_ = 0
    /\ readerFinished = FALSE /\ writerFinished = FALSE
    /\ wakes = NoWakes
    /\ activateCalls = 1 /\ deactivateCalls = 0 /\ statsRead = NoStats
    /\ lives = 1 /\ secondError = "none" /\ staleSignal = FALSE
    /\ outOfRange = FALSE

\* process_(n, this) from entry to return.
Callback ==
    /\ ~crashed
    /\ hostActive /\ callbackSet /\ Alive
    /\ ~IndexesPastEnd(cfg, outputs_, inputs_, writerFinished)
    /\ blocks < MaxBlocks
    /\ blocks' = blocks + 1
    /\ \E n \in 1..MaxFrames, thrower \in Throwers, rS, rE, wS, wE \in BOOLEAN :
         /\ CanThrow(cfg, thrower, writerFinished)
         /\ readerFinished => rS
         /\ rS => rE
         /\ writerFinished => wS
         /\ wS => wE
         \* finished() of an absent collaborator is never asked
         /\ ~cfg.reader => (rS = readerFinished /\ rE = readerFinished)
         /\ ~cfg.writer => (wS = writerFinished /\ wE = writerFinished)
         /\ RunBlock(n, thrower, rS, rE, wS, wE)
         /\ LET fires == thrower = "none" /\ BudgetReached(needed_, done_')
                fr == IF fires THEN FireSeq(finished_fired_, cell)
                      ELSE [fired |-> finished_fired_, cell |-> cell, sets |-> 0,
                            threw |-> FALSE]
                caught == thrower # "none" \/ fr.threw
                ca == IF caught THEN CatchSeq(fr.fired, fr.cell)
                      ELSE [cell |-> fr.cell, sets |-> 0, escapes |-> FALSE]
            IN  /\ finished_fired_' = fr.fired
                /\ cell' = ca.cell
                /\ setCalls' = setCalls + fr.sets + ca.sets
                /\ lastCallback' =
                     [result |-> IF ca.escapes THEN "escaped"
                                 ELSE IF caught THEN "stored" ELSE "returned",
                      exc |-> IF thrower # "none" THEN thrower
                              ELSE IF fr.threw THEN "future_error" ELSE "none",
                      cellAtRaise |-> IF caught THEN cell ELSE "none",
                      budgetFire |-> fires]
                /\ escaped' = IF ca.escapes THEN escaped \cup {"rt"} ELSE escaped
                /\ IF ca.escapes THEN crashed' \in BOOLEAN ELSE crashed' = crashed
    /\ UNCHANGED <<obsVars, cfg, ctlVars, hookVars, engineVars, portVars, needed_, th,
                   signals, shutdowns>>

\* The Reader's thread puts its next sample into its ring buffer.
ReaderProduce ==
    /\ ~crashed
    /\ cfg.reader /\ ~readerFinished
    /\ Len(rdRing) < RdCap
    /\ nextSample <= MaxSamples
    /\ rdRing' = Append(rdRing, nextSample)
    /\ nextSample' = nextSample + 1
    /\ UNCHANGED <<obsVars, cfg, ctlVars, hookVars, engineVars, portVars, needed_, done_,
                   cellVars, th, envVars, lastCallback, escaped, crashed, wrRing,
                   outBuf, frame_count, underruns_, overruns_, readerFinished,
                   writerFinished, wakes>>

\* The Writer's thread takes a sample out of its ring buffer.
WriterDrain ==
    /\ ~crashed
    /\ cfg.writer
    /\ wrRing # <<>>
    /\ wrRing' = Tail(wrRing)
    /\ UNCHANGED <<obsVars, cfg, ctlVars, hookVars, engineVars, portVars, needed_, done_,
                   cellVars, th, envVars, lastCallback, escaped, crashed, rdRing,
                   nextSample, outBuf, frame_count, underruns_, overruns_,
                   readerFinished, writerFinished, wakes>>

\* The Reader has supplied its last sample.
ReaderFinish ==
    /\ ~crashed
    /\ cfg.reader /\ ~readerFinished
    /\ readerFinished' = TRUE
    /\ UNCHANGED <<obsVars, cfg, ctlVars, hookVars, engineVars, portVars, needed_, done_,
                   cellVars, th, envVars, lastCallback, escaped, crashed, rdRing,
                   wrRing, nextSample, outBuf, frame_count, underruns_, overruns_,
                   writerFinished, wakes>>

\* The Writer has all the samples it wants.
WriterFinish ==
    /\ ~crashed
    /\ cfg.writer /\ ~writerFinished
    /\ writerFinished' = TRUE
    /\ UNCHANGED <<obsVars, cfg, ctlVars, hookVars, engineVars, portVars, needed_, done_,
                   cellVars, th, envVars, lastCallback, escaped, crashed, rdRing,
                   wrRing, nextSample, outBuf, frame_count, underruns_, overruns_,
                   readerFinished, wakes>>

NextBlock ==
    \/ Callback
    \/ ReaderProduce
    \/ WriterDrain
    \/ ReaderFinish
    \/ WriterFinish

SpecBlock == InitBlock /\ [][NextBlock]_vars

(***************************************************************************)
(* SpecCtor: the constructor over every kind of argument list, the         *)
(* callbacks of the Reactor it builds, wait_finished(), the destructor,    *)
(* and what the program does with a second Reactor.  The completion        *)
(* sources are the frame budget and a failing callback.                    *)
(***************************************************************************)

\* The constructor's arguments in three families: every combination of
\* collaborators and frame requirements, over one port each; a Reader with
\* every list of output
\* destinations; a Reader or a Writer with any channel count, over a full port
\* list or one that is a port shorter.
ShortOuts == SubSeq(StdOuts, 1, MaxOut - 1)

CtorConfigs ==
    {c \in Configs :
        \/ /\ c.nIn = 1 /\ c.outs = <<"real">> /\ PortPerChannel(c)
        \/ /\ c.reader /\ ~c.writer /\ c.nIn = 0 /\ c.wNeed = 0 /\ c.rNeed = MaxNeed
           /\ ~c.infinite /\ PortPerChannel(c)
        \/ /\ c.reader # c.writer /\ ~c.infinite
           /\ c.rNeed = MaxNeed /\ c.wNeed = MaxNeed
           /\ c.reader => (c.outs \in {StdOuts, ShortOuts} /\ c.nIn = 0 /\ c.wCh = 0)
           /\ c.writer => (c.nIn \in {MaxIn, MaxIn - 1} /\ c.outs = <<>> /\ c.rCh = 0)}

\* The Reader may have filled its ring buffer before the Reactor is built.
InitCtor ==
    /\ cfg \in CtorConfigs
    /\ \E k \in {0, RdCap} :
         /\ (k > 0) => (cfg.reader /\ ~cfg.writer)
         /\ rdRing = [i \in 1..k |-> i]
         /\ nextSample = k + 1
    /\ Unbuilt

\* A callback of a Reactor whose Reader or Writer has more channels than the
\* Reactor has ports: the loops over the channels read outputs_[c] or inputs_[c]
\* past the end of the vector, which is undefined.
CallbackPastEnd ==
    /\ ~crashed
    /\ hostActive /\ callbackSet /\ Alive
    /\ IndexesPastEnd(cfg, outputs_, inputs_, writerFinished)
    /\ blocks < MaxBlocks
    /\ blocks' = blocks + 1
    /\ outOfRange' = TRUE
    /\ crashed' \in BOOLEAN
    /\ UNCHANGED <<activateCalls, deactivateCalls, statsRead, lives, secondError,
                   staleSignal, dataVars, cfg, ctlVars, hookVars, engineVars, portVars,
                   needed_, done_, cellVars, th, signals, shutdowns, lastCallback,
                   escaped>>

\* The constructor of a second Reactor, run while the first one exists: it throws
\* at the instance check, before it registers a port.  Were instance null it
\* would claim the handle and go on as the first constructor did.
ConstructSecond ==
    /\ ~crashed
    /\ ctl \in {"constructed", "returned"}
    /\ secondError = "none"
    /\ IF instance # "null"
       THEN /\ secondError' = "duplicate_instance"
            /\ UNCHANGED instance
       ELSE /\ secondError' = "built"
            /\ instance' = "second"
    /\ UNCHANGED <<activateCalls, deactivateCalls, statsRead, lives, staleSignal,
                   outOfRange, dataVars, cfg, ctlVars, sigHandlers, callbackSet,
                   shutdownHook, engineVars, portVars, needed_, done_, cellVars, th,
                   envVars, lastCallback, escaped, crashed>>

\* The program makes a new Reactor after the lifetime of the previous one ended,
\* by its destructor or by an exception of its constructor: a fresh object with
\* the same client and collaborators.  The host's ports, the signal dispositions
\* and the instance handle are what the previous Reactor left.
NewReactor ==
    /\ ~crashed
    /\ ctl \in {"ctor_failed", "destroyed"}
    /\ lives < MaxLives
    /\ lives' = lives + 1
    /\ ctl' = "start" /\ ctorError' = "none" /\ hostRefused' = "none"
    /\ waitOutcome' = "none"
    /\ activated_' = FALSE /\ inputs_' = <<>> /\ outputs_' = <<>>
    /\ needed_' = 0 /\ done_' = 0
    /\ finished_fired_' = FALSE /\ cell' = "empty" /\ setCalls' = 0
    /\ underruns_' = 0 /\ overruns_' = 0
    /\ th' = [t \in Contexts |-> Idle]
    /\ lastCallback' = NoCallback /\ escaped' = {}
    /\ activateCalls' = 0 /\ deactivateCalls' = 0 /\ statsRead' = NoStats
    /\ outBuf' = <<>> /\ frame_count' = 0 /\ wakes' = NoWakes
    /\ UNCHANGED <<cfg, hookVars, hostActive, registered, unregistered, doubleUnreg,
                   connected, envVars, crashed, rdRing, wrRing, nextSample,
                   readerFinished, writerFinished, secondError, staleSignal,
                   outOfRange>>

\* One of SIGNALS_INTERCEPT arrives while signal_handler_ is installed and no
\* Reactor is live: the handler calls signal_finished() through an instance
\* pointer that is null or dangling, which is undefined.
SignalStale ==
    /\ ~crashed
    /\ sigHandlers = "installed" /\ ~Alive
    /\ ~staleSignal
    /\ staleSignal' = TRUE
    /\ crashed' \in BOOLEAN
    /\ UNCHANGED <<activateCalls, deactivateCalls, statsRead, lives, secondError,
                   outOfRange, dataVars, cfg, ctlVars, hookVars, engineVars, portVars,
                   needed_, done_, cellVars, th, envVars, lastCallback, escaped>>

NextCtor ==
    \/ Construct
    \/ ConstructWire
    \/ Callback
    \/ CallbackPastEnd
    \/ WaitFinished
    \/ Destroy
    \/ ConstructSecond
    \/ NewReactor
    \/ SignalStale

SpecCtor == InitCtor /\ [][NextCtor]_vars

(***************************************************************************)
(* Spec with the scheduling the program can rely on: a thread that is      *)
(* inside a handler goes on to its next step, and the controlling thread   *)
(* leaves wait_finished() once it can.  Nothing obliges the host to        *)
(* deliver a callback, a shutdown notification or a signal.                *)
(***************************************************************************)
FairSpec ==
    /\ Spec
    /\ WF_vars(WaitFinished)
    /\ WF_vars(ProcessCatchTest)
    /\ WF_vars(ProcessCatchStore)
    /\ \A t \in Contexts :
         /\ WF_vars(SignalFinishedTest(t))
         /\ WF_vars(SignalFinishedLatch(t))
         /\ WF_vars(SignalFinishedSet(t))


(***************************************************************************)
(* The claims.                                                             *)
(***************************************************************************)

\* C1: over all interleavings of the four completion sources the completion
\* cell is written at most once; a later fire of any source performs no write
\* on the cell (no second call of set_value or set_exception is made).
C1_WrittenAtMostOnce == setCalls <= 1

\* C2: if the completion cell holds an exception captured from the callback,
\* wait_finished() deactivates the engine and re-raises the exception; it does
\* not return normally.
C2_WaitReraises ==
    (ctl \in {"returned", "destroyed"} /\ cell = "exception")
        => (waitOutcome = "raised" /\ ~hostActive)

\* C3: a callback in which processing raised an exception while the completion
\* cell had not fired stores the exception and returns 0; an exception leaves
\* process_ only if the cell had fired before it was raised.
C3_NoEscapeBeforeFire ==
    /\ lastCallback.cellAtRaise = "empty" => lastCallback.result = "stored"
    /\ lastCallback.result = "escaped" => lastCallback.cellAtRaise \in {"value", "exception"}

\* C8: when the Reactor's lifetime has ended (the destructor ran, or the
\* constructor threw) every host port that was created is disconnected and
\* unregistered, and none was unregistered twice.
C8_PortsReleased ==
    ctl \in {"destroyed", "ctor_failed"}
        => (registered = {} /\ connected = {} /\ ~doubleUnreg)

\* C9: if the host refuses a connection in connect_ports(), the constructor ends
\* with the wiring error, and the engine is then not active.
C9_WiringRollback ==
    hostRefused = "connect"
        => (ctl = "ctor_failed" /\ ctorError = "wiring" /\ ~hostActive /\ ~activated_)

\* The wiring failed after a callback had run in the activated engine.
C9_Witness == hostRefused = "connect" /\ blocks > 0 /\ registered # {}

\* C10: once a signal or the host's shutdown notification has arrived at a
\* running Reactor whose controlling thread is in wait_finished(), then, unless
\* an exception is captured, wait_finished() eventually returns normally with
\* the engine deactivated.
C10_SignalEndsWait ==
    ((signals > 0 \/ shutdowns > 0) /\ ctl = "constructed")
        ~> ((ctl = "returned" /\ waitOutcome = "normal" /\ ~hostActive)
            \/ cell = "exception")

\* Whether the block that the step ends ran playback() and capture() to their end.
PlayedBlock == blocks' = blocks + 1 /\ cfg.reader /\ lastCallback'.exc # "playback"
CapturedBlock ==
    /\ blocks' = blocks + 1 /\ cfg.writer /\ ~writerFinished
    /\ lastCallback'.exc \notin {"playback", "capture"}

\* The frame of the first short read of a block of n frames over ch channels
\* that starts with avail samples in the ring buffer (n if no read is short).
FirstShortFrame(n, ch, avail) ==
    IF ch = 0 \/ avail >= n * ch THEN n ELSE avail \div ch

\* C4: the budget test calls signal_finished only in an invocation after which
\* done_ >= needed_ # 0, it does so in the invocation that takes done_ to
\* needed_ or past it, where it completes an unwritten cell, and every block
\* that does not throw adds its full frame count to done_.
C4_BudgetFire ==
    [][blocks' = blocks + 1 =>
        /\ lastCallback'.budgetFire => (needed_ # 0 /\ done_' >= needed_)
        /\ (needed_ # 0 /\ done_ < needed_ /\ done_' >= needed_)
             => (lastCallback'.budgetFire /\ (cell = "empty" => cell' = "value"))
        /\ lastCallback'.exc \notin {"playback", "capture"}
             => done_' = done_ + frame_count'
        /\ (needed_ # 0 /\ done_' >= needed_
                /\ lastCallback'.exc \notin {"playback", "capture"})
             => lastCallback'.budgetFire]_vars

\* A block with an underrun took done_ to the budget and completed the cell.
C4_Witness ==
    /\ lastCallback.budgetFire /\ cell = "value" /\ done_ >= needed_
    /\ underruns_ > 0 /\ blocks = MaxBlocks

\* C5: after playback(n), with k the frame of the first short read (n if none),
\* every real output channel holds in its slots 0..k-1 the samples read for it
\* from the ring buffer and Silence in its slots k..n-1; no frame holds a sample
\* in one real channel and none in another.
C5_PlaybackBuffers ==
    [][PlayedBlock =>
        LET ch == ReaderChannels(cfg)
            n == frame_count'
            k == FirstShortFrame(n, ch, Len(rdRing))
        IN  /\ \A c \in 1..ch : cfg.outs[c] = "real" =>
                 /\ Len(outBuf'[c]) = n
                 /\ \A f \in 1..n :
                      outBuf'[c][f] = IF f <= k THEN rdRing[(f - 1) * ch + c]
                                      ELSE Silence
            /\ \A f \in 1..n : \A c1, c2 \in 1..ch :
                 (cfg.outs[c1] = "real" /\ cfg.outs[c2] = "real")
                    => ((outBuf'[c1][f] > 0) <=> (outBuf'[c2][f] > 0))]_vars

\* A block of two frames over two real channels whose read for channel 1 of
\* frame 1 was short: frame 0 is played, frame 1 is muted in both channels.
C5_Witness ==
    /\ cfg.reader /\ cfg.outs = <<"real", "real">>
    /\ frame_count = 2 /\ blocks > 0 /\ lastCallback.exc = "none"
    /\ outBuf = <<<<1, Silence>>, <<2, Silence>>>>
    /\ rdRing = <<>> /\ nextSample = 4

\* C6: the number of samples a block's capture() writes into the Writer's ring
\* buffer is a multiple of the Writer's channel count.
C6_WholeFramesCaptured ==
    [][(CapturedBlock /\ WriterChannels(cfg) > 0) =>
        (Len(wrRing') - Len(wrRing)) % WriterChannels(cfg) = 0]_vars

\* C7: in a block the underrun counter grows by 1 if a read was short while the
\* Reader was not finished and by 0 otherwise, never once the Reader was seen
\* finished; likewise the overrun counter for short writes and the Writer.
C7_XrunCounts ==
    [][blocks' = blocks + 1 =>
        LET n == frame_count'
            shortRead == PlayedBlock /\ Len(rdRing) < n * ReaderChannels(cfg)
            shortWrite == CapturedBlock
                            /\ WrCap - Len(wrRing) < n * WriterChannels(cfg)
            under == underruns_' - underruns_
            over == overruns_' - overruns_
        IN  /\ under \in {0, 1} /\ over \in {0, 1}
            /\ under = 1 => (shortRead /\ ~readerFinished)
            /\ (shortRead /\ ~readerFinished') => under = 1
            /\ over = 1 => (shortWrite /\ ~writerFinished)
            /\ (shortWrite /\ ~writerFinished') => over = 1]_vars

\* A starved block was counted, and a later starved block of the finished
\* Reader was not.
C7_Witness ==
    /\ cfg.reader /\ ReaderChannels(cfg) > 0 /\ readerFinished
    /\ underruns_ = 1 /\ blocks = 2 /\ rdRing = <<>>
    /\ lastCallback.exc = "none"
    /\ \A c \in 1..ReaderChannels(cfg) : cfg.outs[c] = "real" =>
         outBuf[c] = [f \in 1..frame_count |-> Silence]

\* C11: wait_finished() does not return, and the engine is not deactivated,
\* before the completion cell is written; with a frame budget of 0 and no
\* shutdown notification and no signal, wait_finished() has returned only if a
\* callback's exception was captured, whatever the number of blocks processed
\* and whatever the Reader and the Writer report.
C11_WaitBlocksUntilFired ==
    /\ ctl = "constructed" => (hostActive /\ activated_ /\ deactivateCalls = 0)
    /\ ctl \in {"returned", "destroyed"} => cell # "empty"
    /\ (ctl \in {"returned", "destroyed"} /\ needed_ = 0 /\ shutdowns = 0 /\ signals = 0)
         => cell = "exception"

\* Every block was processed and the Reader and the Writer are finished, and the
\* controlling thread is still in wait_finished().
C11_Witness ==
    /\ ctl = "constructed" /\ needed_ = 0 /\ cell = "empty"
    /\ cfg.reader /\ cfg.writer /\ readerFinished /\ writerFinished
    /\ blocks = MaxBlocks /\ done_ > 0 /\ hostActive

\* C12: with a Reader, an output whose destination is the null sentinel has a
\* null handle and is never registered with the host nor wired; in a constructed
\* Reactor every other output has its one host port, registered and wired; and
\* playback() reads one sample per channel, null channels included, in channel
\* order, for every frame it transfers fully.
C12_NullOutputs ==
    [][/\ \A i \in DOMAIN cfg.outs :
            /\ (cfg.reader /\ cfg.outs[i] = "null") =>
                 /\ <<"out", i>> \notin (registered' \cup unregistered' \cup connected')
                 /\ i \in DOMAIN outputs_' => outputs_'[i] = NullPort
            /\ (cfg.reader /\ cfg.outs[i] = "real" /\ ctl' = "constructed") =>
                 /\ outputs_'[i] = <<"out", i>>
                 /\ <<"out", i>> \in registered' /\ <<"out", i>> \in connected'
       /\ (cfg.reader /\ ctl' = "constructed") =>
            /\ Len(outputs_') = Len(cfg.outs)
            /\ Cardinality({p \in registered' : p[1] = "out"})
                 = Cardinality({i \in DOMAIN cfg.outs : cfg.outs[i] = "real"})
       /\ (PlayedBlock /\ PortPerChannel(cfg)) =>
            LET ch == ReaderChannels(cfg)
                n == frame_count'
                k == FirstShortFrame(n, ch, Len(rdRing))
            IN  /\ Len(rdRing) - Len(rdRing') >= k * ch
                /\ rdRing' = SubSeq(rdRing, Len(rdRing) - Len(rdRing') + 1, Len(rdRing))
                /\ \A c \in 1..ch : \A f \in 1..k :
                     cfg.outs[c] = "real" => outBuf'[c][f] = rdRing[(f - 1) * ch + c]]_vars

\* A Reader with a null output in channel 0 and a real one in channel 1 played a
\* block of one frame: two samples left the ring buffer, the second was played.
C12_Witness ==
    /\ ctl = "constructed" /\ cfg.reader /\ cfg.outs = <<"null", "real">>
    /\ outputs_ = <<NullPort, <<"out", 2>>>>
    /\ registered = {<<"out", 2>>} /\ connected = {<<"out", 2>>}
    /\ blocks = 1 /\ frame_count = 1 /\ lastCallback.exc = "none"
    /\ outBuf = <<<<>>, <<2>>>> /\ Len(rdRing) = RdCap - 2

\* C13: the constructor of a second Reactor fails while the first is live, and
\* the instance handle is non-null exactly while a Reactor is live, so the
\* constructor of a Reactor made after the previous one was destroyed or failed
\* to construct never fails for a duplicate instance.
C13_SingletonTracksLife ==
    /\ secondError \in {"none", "duplicate_instance"}
    /\ (instance # "null") <=> Alive
    /\ ctorError # "duplicate_instance"

\* C14: the host is asked to activate at most once and to deactivate at most
\* once per Reactor, activated_ follows the engine, the engine is not active
\* after it was deactivated, and a run whose cell holds a captured exception
\* ends deactivated.
C14_EngineLifecycle ==
    /\ activateCalls <= 1 /\ deactivateCalls <= 1
    /\ hostActive => (activateCalls = 1 /\ deactivateCalls = 0)
    /\ activated_ <=> hostActive
    /\ deactivateCalls = 1 => activateCalls = 1
    /\ (ctl \in {"returned", "destroyed"} /\ cell = "exception")
         => (~hostActive /\ deactivateCalls = 1)

\* A run that ended with a captured exception was deactivated once, by
\* wait_finished(), and the destructor did not deactivate again.
C14_Witness ==
    /\ ctl = "destroyed" /\ cell = "exception"
    /\ activateCalls = 1 /\ deactivateCalls = 1 /\ ~hostActive

\* C15: when wait_finished() has read the counters, completion has fired, the
\* engine is deactivated, no callback is running, and the counters are what was
\* read ever after.
C15_StatsReadAtRest ==
    statsRead.read =>
        /\ cell # "empty" /\ ~hostActive /\ ~activated_
        /\ th["rt"].pc = "idle"
        /\ statsRead.done = done_
        /\ statsRead.overruns = overruns_
        /\ statsRead.underruns = underruns_

\* The budget fired in one block, a later block still ran, and wait_finished()
\* read the frames of both.
C15_Witness ==
    /\ statsRead.read /\ cell = "value" /\ signals = 0 /\ shutdowns = 0
    /\ needed_ > 0 /\ statsRead.done >= needed_ + MaxFrames
    /\ blocks = MaxBlocks

\* C16: the number of samples a block's playback() takes out of the Reader's
\* ring buffer is a multiple of the Reader's channel count.
C16_WholeFramesPlayed ==
    [][(PlayedBlock /\ ReaderChannels(cfg) > 0) =>
        (Len(rdRing) - Len(rdRing')) % ReaderChannels(cfg) = 0]_vars

\* C17: a block that starts with the Writer finished leaves the Writer's ring
\* buffer and the overrun counter as they were, does not wake the Writer and
\* fetches no input buffer (so capture() cannot throw); its frames are counted
\* and the budget test runs.
C17_FinishedWriterSkipped ==
    [][(blocks' = blocks + 1 /\ cfg.writer /\ writerFinished) =>
        /\ wrRing' = wrRing
        /\ overruns_' = overruns_
        /\ ~wakes'.writer
        /\ writerFinished'
        /\ lastCallback'.exc # "capture"
        /\ lastCallback'.exc \notin {"playback", "capture"}
             => /\ done_' = done_ + frame_count'
                /\ lastCallback'.budgetFire <=> (needed_ # 0 /\ done_' >= needed_)]_vars

\* The Writer was finished before the last block, which wrote nothing and took
\* the frame count to the budget.
C17_Witness ==
    /\ cfg.writer /\ WriterChannels(cfg) > 0 /\ writerFinished
    /\ blocks = MaxBlocks /\ wrRing = <<>> /\ overruns_ = 0 /\ ~wakes.writer
    /\ lastCallback.budgetFire /\ needed_ > 0 /\ done_ >= needed_

\* What the Reader and the Writer declare as frames needed (0 if absent).
ReaderNeeds == IF cfg.reader THEN cfg.rNeed ELSE 0
WriterNeeds == IF cfg.writer THEN cfg.wNeed ELSE 0

\* C18: from the constructor on, the frame budget is the maximum of what the
\* Reader and the Writer declare (an absent one counting as 0), and so is 0
\* exactly when that maximum is 0.
C18_BudgetIsMax ==
    ctl # "start" =>
        /\ needed_ >= ReaderNeeds /\ needed_ >= WriterNeeds
        /\ needed_ \in {ReaderNeeds, WriterNeeds}
        /\ needed_ = 0 <=> (ReaderNeeds = 0 /\ WriterNeeds = 0)

\* C18, amended: from the constructor on, the frame budget is 0 if the
\* constructor was told that the duration is infinite, and otherwise the maximum
\* of what the Reader and the Writer declare (an absent one counting as 0); it
\* is 0 exactly when the duration is infinite or that maximum is 0.
C18_BudgetIsMaxUnlessInfinite ==
    ctl # "start" =>
        /\ cfg.infinite => needed_ = 0
        /\ ~cfg.infinite =>
             /\ needed_ >= ReaderNeeds /\ needed_ >= WriterNeeds
             /\ needed_ \in {ReaderNeeds, WriterNeeds}
        /\ needed_ = 0 <=> (cfg.infinite \/ (ReaderNeeds = 0 /\ WriterNeeds = 0))

\* The Reader declares 0 and the Writer a positive requirement: the budget is
\* the Writer's, also after blocks were processed.
C18_Witness ==
    /\ ctl = "constructed" /\ cfg.reader /\ cfg.writer /\ ~cfg.infinite
    /\ cfg.rNeed = 0 /\ cfg.wNeed = MaxNeed /\ needed_ = MaxNeed
    /\ blocks > 0

\* C19: while signal_handler_ is installed the instance handle refers to a live
\* Reactor, no signal handler has run without one, and after the destructor and
\* after a failed construction the signals are at their default handling.
C19_HandlersOnlyWhileLive ==
    /\ sigHandlers = "installed" => (instance = "this" /\ Alive)
    /\ ~staleSignal
    /\ ctl \in {"destroyed", "ctor_failed"} => sigHandlers = "default"

\* C20: a constructed Reactor tracks as many output entries as its Reader has
\* channels and as many input ports as its Writer has channels, and no callback
\* indexes a port vector past its end.
C20_PortPerChannel ==
    /\ ctl = "constructed" =>
         /\ cfg.reader => Len(outputs_) = ReaderChannels(cfg)
         /\ cfg.writer => Len(inputs_) = WriterChannels(cfg)
    /\ ~outOfRange

====
